---- MODULE Spec2Model ----
(***************************************************************************)
(* Model of the git-ls-remote ref-advertisement decoders of deps.rs:       *)
(*   - the incremental decoder  Parser::{update, finalize, parse_line}     *)
(*     and its driver  parse          (libs/git-ls-remote/src/parser.rs)   *)
(*   - the batch decoder  parse_body / parse_lines                         *)
(*                                    (libs/git-ls-remote/src/lib.rs)      *)
(* and of what the Engine makes of them:                                   *)
(*   - LsRemote::call and LsRemoteFuture::poll                             *)
(*                                    (libs/git-ls-remote/src/lib.rs)      *)
(*   - Engine::find_head_oid, Engine::analyze_dependencies and             *)
(*     AnalyzeDependenciesOutcome::outdated_ratio    (src/engine/mod.rs)   *)
(*   - a Cache of the Engine, after section 4.3 of the specification       *)
(*                                                                         *)
(* A byte is a one-character string; NUL, LF and the byte 0xFF (which is   *)
(* never part of a UTF-8 text) have names.  Every other byte of the model  *)
(* is ASCII, so a String's characters are its bytes.                       *)
(***************************************************************************)
EXTENDS Integers, Sequences, FiniteSets, TLC

\* ------------------------------------------------------------------------
\* Bounds of the model
\* ------------------------------------------------------------------------

\* a payload is made of at most MaxUnits wire units
MaxUnits == 3

\* body.read returns 1..SmallChunk bytes, or as many as the buffer takes
SmallChunk == 2

\* ------------------------------------------------------------------------
\* Program constants
\* ------------------------------------------------------------------------

\* let mut buf = [0u8; 128];
BufSize == 128

\* from_str_radix(len_str, 16)
Radix == 16

\* ------------------------------------------------------------------------
\* Bytes and text
\* ------------------------------------------------------------------------

NUL == "NUL"

LF == "LF"

xFF == "xFF"

SP == " "

LowerDigits == <<"0", "1", "2", "3", "4", "5", "6", "7", "8", "9",
                 "a", "b", "c", "d", "e", "f">>

UpperDigits == <<"0", "1", "2", "3", "4", "5", "6", "7", "8", "9",
                 "A", "B", "C", "D", "E", "F">>

\* char::to_digit(c, 16), -1 for None
to_digit(c) ==
    IF \E i \in 1..Radix : LowerDigits[i] = c
    THEN (CHOOSE i \in 1..Radix : LowerDigits[i] = c) - 1
    ELSE IF \E i \in 1..Radix : UpperDigits[i] = c
         THEN (CHOOSE i \in 1..Radix : UpperDigits[i] = c) - 1
         ELSE -1

RECURSIVE digits_value(_)
digits_value(ds) ==
    IF ds = <<>> THEN 0
    ELSE digits_value(SubSeq(ds, 1, Len(ds) - 1)) * Radix + to_digit(ds[Len(ds)])

\* usize::from_str_radix(s, 16): an optional '+', then one or more digits
from_str_radix(s) ==
    LET digits == IF s # <<>> /\ s[1] = "+" THEN Tail(s) ELSE s
    IN  IF digits = <<>> \/ \E i \in 1..Len(digits) : to_digit(digits[i]) = -1
        THEN [ok |-> FALSE, val |-> 0]
        ELSE [ok |-> TRUE, val |-> digits_value(digits)]

\* str::from_utf8 / String::from_utf8 succeed
is_utf8(bytes) == \A i \in 1..Len(bytes) : bytes[i] # xFF

\* the position of the first c in s, 0 for None
find(s, c) ==
    IF \E i \in 1..Len(s) : s[i] = c
    THEN CHOOSE i \in 1..Len(s) : s[i] = c /\ \A j \in 1..(i - 1) : s[j] # c
    ELSE 0

\* if let Some(last_char) = line_string.pop() { if last_char != '\n' { push } }
strip_newline(s) ==
    IF s # <<>> /\ s[Len(s)] = LF THEN SubSeq(s, 1, Len(s) - 1) ELSE s

SERVICE == <<"#", " ", "s", "e", "r", "v", "i", "c", "e", "=", "g", "i", "t",
             "-", "u", "p", "l", "o", "a", "d", "-", "p", "a", "c", "k">>

\* ------------------------------------------------------------------------
\* Values
\* ------------------------------------------------------------------------

AwaitingLength == [tag |-> "AwaitingLength", len |-> 0]

AwaitingLineOfLength(n) == [tag |-> "AwaitingLineOfLength", len |-> n]

NoError == [kind |-> "None", detail |-> <<>>]

Error(kind, detail) == [kind |-> kind, detail |-> detail]

Ref(name, oid) == [name |-> name, oid |-> oid]

NoRef == Ref(<<>>, <<>>)

\* ParseResult; "None" stands for no result yet (and a pending self-call)
PNone == [tag |-> "None", err |-> NoError, ref |-> NoRef]

PError(e) == [tag |-> "Error", err |-> e, ref |-> NoRef]

PYield(r) == [tag |-> "Yield", err |-> NoError, ref |-> r]

PIncomplete == [tag |-> "Incomplete", err |-> NoError, ref |-> NoRef]

PEnd == [tag |-> "End", err |-> NoError, ref |-> NoRef]

\* Result<Vec<Ref>, Error> and Result<(), Error>
RNone == [tag |-> "None", refs |-> <<>>, err |-> NoError]

ROk(rs) == [tag |-> "Ok", refs |-> rs, err |-> NoError]

RErr(e) == [tag |-> "Err", refs |-> <<>>, err |-> e]

\* ------------------------------------------------------------------------
\* Parser (parser.rs)
\* ------------------------------------------------------------------------

\* Parser::new
new == [state |-> AwaitingLength, line_idx |-> 0]

\* what one call returns: the parser and (for update) the buffer it leaves,
\* its ParseResult, and again = TRUE when it ends in `return self.update(data)`
Ret(p, d, res, again) == [p |-> p, data |-> d, res |-> res, again |-> again]

\* Parser::parse_line, the branch for line_idx > 1
ref_line(p, line) ==
    LET space_index == find(line, SP)
    IN  IF space_index # 0
        THEN [p   |-> [state |-> AwaitingLength, line_idx |-> p.line_idx + 1],
              res |-> PYield(Ref(SubSeq(line, space_index + 1, Len(line)),
                                 SubSeq(line, 1, space_index - 1)))]
        ELSE [p |-> p, res |-> PError(Error("InvalidLine", line))]

\* parse_line that takes any first line for the service line
parse_line_any_first(p, line) ==
    IF p.line_idx = 0
    THEN [p   |-> [state |-> AwaitingLength, line_idx |-> p.line_idx + 1],
          res |-> PIncomplete]
    ELSE IF p.line_idx = 1
    THEN LET nul_index == find(line, NUL)
         IN  IF nul_index # 0
             THEN ref_line([p EXCEPT !.line_idx = p.line_idx + 1],
                           SubSeq(line, 1, nul_index - 1))
             ELSE [p |-> p, res |-> PEnd]
    ELSE ref_line(p, line)

\* parse_line that takes a second line without NUL for the first ref line
parse_line_no_end(p, line) ==
    IF p.line_idx = 0
    THEN IF line # SERVICE
         THEN [p |-> p, res |-> PError(Error("InvalidLine", line))]
         ELSE [p   |-> [state |-> AwaitingLength, line_idx |-> p.line_idx + 1],
               res |-> PIncomplete]
    ELSE IF p.line_idx = 1
    THEN LET nul_index == find(line, NUL)
         IN  IF nul_index # 0
             THEN ref_line([p EXCEPT !.line_idx = p.line_idx + 1],
                           SubSeq(line, 1, nul_index - 1))
             ELSE ref_line([p EXCEPT !.line_idx = p.line_idx + 1], line)
    ELSE ref_line(p, line)

\* Parser::parse_line; its self-call is made with line_idx = 2, which takes
\* the last branch
parse_line(p, line) ==
    IF p.line_idx = 0
    THEN IF line # SERVICE
         THEN [p |-> p, res |-> PError(Error("InvalidLine", line))]
         ELSE [p   |-> [state |-> AwaitingLength, line_idx |-> p.line_idx + 1],
               res |-> PIncomplete]
    ELSE IF p.line_idx = 1
    THEN LET nul_index == find(line, NUL)
         IN  IF nul_index # 0
             THEN ref_line([p EXCEPT !.line_idx = p.line_idx + 1],
                           SubSeq(line, 1, nul_index - 1))
             ELSE [p |-> p, res |-> PEnd]
    ELSE ref_line(p, line)

\* the test for a flush unit that knows 0000 only
is_flush_zero_only(len) == len = 0

\* the test for a flush unit that takes every length up to 4
is_flush_up_to_four(len) == len <= 4

\* if len == 0 || len == 4
is_flush(len) == len = 0 \/ len = 4

\* awaiting_length that leaves a separator in the buffer
awaiting_length_keeps_flush(p, data) ==
    IF Len(data) < 4
    THEN Ret(p, data, PIncomplete, FALSE)
    ELSE LET len_bytes == SubSeq(data, 1, 4)
             rest      == SubSeq(data, 5, Len(data))
             parsed    == from_str_radix(len_bytes)
             len       == parsed.val
         IN  IF ~is_utf8(len_bytes)
             THEN Ret(p, rest, PError(Error("Utf8", <<>>)), FALSE)
             ELSE IF ~parsed.ok
             THEN Ret(p, rest, PError(Error("ParseInt", len_bytes)), FALSE)
             ELSE IF is_flush(len)
             THEN Ret(p, data, PNone, TRUE)
             ELSE IF len < 4
             THEN Ret(p, rest, PError(Error("InvalidLineLength", <<>>)), FALSE)
             ELSE Ret([p EXCEPT !.state = AwaitingLineOfLength(len - 4)],
                      rest, PNone, TRUE)

\* Parser::update, state AwaitingLength: one invocation
awaiting_length(p, data) ==
    IF Len(data) < 4
    THEN Ret(p, data, PIncomplete, FALSE)
    ELSE LET len_bytes == SubSeq(data, 1, 4)
             rest      == SubSeq(data, 5, Len(data))
             parsed    == from_str_radix(len_bytes)
             len       == parsed.val
         IN  IF ~is_utf8(len_bytes)
             THEN Ret(p, rest, PError(Error("Utf8", <<>>)), FALSE)
             ELSE IF ~parsed.ok
             THEN Ret(p, rest, PError(Error("ParseInt", len_bytes)), FALSE)
             ELSE IF is_flush(len)
             THEN Ret(p, rest, PNone, TRUE)
             ELSE IF len < 4
             THEN Ret(p, rest, PError(Error("InvalidLineLength", <<>>)), FALSE)
             ELSE Ret([p EXCEPT !.state = AwaitingLineOfLength(len - 4)],
                      rest, PNone, TRUE)

\* awaiting_line that forgets the length it waits for when the line is short
awaiting_line_forgets(p, data) ==
    LET len == p.state.len
    IN  IF Len(data) < len
        THEN Ret([p EXCEPT !.state = AwaitingLength], data, PIncomplete, FALSE)
        ELSE LET line_bytes == SubSeq(data, 1, len)
                 rest       == SubSeq(data, len + 1, Len(data))
                 r          == parse_line(p, strip_newline(line_bytes))
             IN  IF ~is_utf8(line_bytes)
                 THEN Ret(p, rest, PError(Error("FromUtf8", <<>>)), FALSE)
                 ELSE Ret(r.p, rest, r.res, FALSE)

\* Parser::update, state AwaitingLineOfLength(len): one invocation
awaiting_line(p, data) ==
    LET len == p.state.len
    IN  IF Len(data) < len
        THEN Ret(p, data, PIncomplete, FALSE)
        ELSE LET line_bytes == SubSeq(data, 1, len)
                 rest       == SubSeq(data, len + 1, Len(data))
                 r          == parse_line(p, strip_newline(line_bytes))
             IN  IF ~is_utf8(line_bytes)
                 THEN Ret(p, rest, PError(Error("FromUtf8", <<>>)), FALSE)
                 ELSE Ret(r.p, rest, r.res, FALSE)

\* Parser::update: one invocation, up to its return or its tail self-call
update(p, data) ==
    IF p.state.tag = "AwaitingLength"
    THEN awaiting_length(p, data)
    ELSE awaiting_line(p, data)

\* finalize that is content with one line
finalize_one_line(p) ==
    IF p.state.tag = "AwaitingLength" /\ p.line_idx > 0
    THEN ROk(<<>>)
    ELSE RErr(Error("UnexpectedEndOfPayload", <<>>))

\* Parser::finalize
finalize(p) ==
    IF p.state.tag = "AwaitingLength" /\ p.line_idx > 1
    THEN ROk(<<>>)
    ELSE RErr(Error("UnexpectedEndOfPayload", <<>>))

\* Parser::update as its caller sees it: the self-calls followed to the return
RECURSIVE update_call(_, _)
update_call(p, data) ==
    LET u == update(p, data)
    IN  IF u.again THEN update_call(u.p, u.data) ELSE u

\* ------------------------------------------------------------------------
\* parse_body / parse_lines (lib.rs)
\* ------------------------------------------------------------------------

\* the closure of iter.map(..) in parse_lines
map_line(line) ==
    LET space_index == find(line, SP)
    IN  IF space_index # 0
        THEN ROk(<<Ref(SubSeq(line, space_index + 1, Len(line)),
                       SubSeq(line, 1, space_index - 1))>>)
        ELSE RErr(Error("InvalidLine", line))

\* .collect::<Result<Vec<_>, _>>(): the refs, or the first error
RECURSIVE collect(_, _)
collect(lines, acc) ==
    IF lines = <<>> THEN ROk(acc)
    ELSE LET r == map_line(Head(lines))
         IN  IF r.tag = "Err" THEN r ELSE collect(Tail(lines), acc \o r.refs)

parse_lines(lines) ==
    IF lines = <<>>
    THEN RErr(Error("UnexpectedEndOfPayload", <<>>))
    ELSE IF lines[1] # SERVICE
    THEN RErr(Error("InvalidLine", lines[1]))
    ELSE IF Len(lines) < 2
    THEN RErr(Error("UnexpectedEndOfPayload", <<>>))
    ELSE LET second_line == lines[2]
             nul_index   == find(second_line, NUL)
         IN  IF nul_index # 0
             THEN collect(<<SubSeq(second_line, 1, nul_index - 1)>>
                              \o SubSeq(lines, 3, Len(lines)), <<>>)
             ELSE ROk(<<>>)

\* the loop of parse_body over what is left of the body
RECURSIVE body_loop(_, _)
body_loop(body, lines) ==
    IF Len(body) < 4
    THEN parse_lines(lines)
    ELSE LET len_bytes == SubSeq(body, 1, 4)
             rest      == SubSeq(body, 5, Len(body))
             parsed    == from_str_radix(len_bytes)
             len       == parsed.val
         IN  IF ~is_utf8(len_bytes)
             THEN RErr(Error("Utf8", <<>>))
             ELSE IF ~parsed.ok
             THEN RErr(Error("ParseInt", len_bytes))
             ELSE IF len = 0 \/ len = 4
             THEN body_loop(rest, lines)
             ELSE IF len < 4
             THEN RErr(Error("InvalidLineLength", <<>>))
             ELSE IF Len(rest) < len - 4
             THEN RErr(Error("Io", <<>>))
             ELSE LET line_bytes == SubSeq(rest, 1, len - 4)
                  IN  IF ~is_utf8(line_bytes)
                      THEN RErr(Error("FromUtf8", <<>>))
                      ELSE body_loop(SubSeq(rest, len - 3, Len(rest)),
                                     Append(lines, strip_newline(line_bytes)))

parse_body(body) == body_loop(body, <<>>)

\* ------------------------------------------------------------------------
\* Payloads: the wire units the streams of the model are made of
\* ------------------------------------------------------------------------

\* the 4-digit lowercase hexadecimal length prefix of a unit of n bytes
Hex4(n) ==
    <<LowerDigits[((n \div 4096) % 16) + 1], LowerDigits[((n \div 256) % 16) + 1],
      LowerDigits[((n \div 16) % 16) + 1], LowerDigits[(n % 16) + 1]>>

\* the unit that carries a line
PktLine(body) == Hex4(Len(body) + 4) \o body

Oid40 == <<"9", "9", "0", "f", "a", "3", "a", "0", "5", "4", "f", "9", "7", "9",
           "b", "6", "6", "9", "8", "9", "c", "7", "9", "d", "f", "2", "1", "b",
           "8", "c", "7", "1", "d", "8", "e", "b", "9", "4", "6", "f">>

HEADNAME == <<"H", "E", "A", "D">>

\* the logical lines of the units that carry one
TextOf ==
    [svc    |-> SERVICE,
     head   |-> <<"a", "b", SP>> \o HEADNAME \o <<NUL, "m">>,
     ref1   |-> <<"c", "d", SP, "r", "1">>,
     ref2   |-> <<"e", "f", SP, "r", SP, "2">>,
     head40 |-> Oid40 \o <<SP>> \o HEADNAME \o <<NUL, "m">>,
     svcnl  |-> SERVICE \o <<LF>>,
     junk   |-> <<"x">>,
     nul    |-> <<NUL, "m">>,
     badtxt |-> <<xFF>>]

\* the units whose line is sent without the newline
NoNewline == {"ref2", "nul", "badtxt"}

\* the bytes of the line of a unit
LineOf(u) == TextOf[u] \o (IF u \in NoNewline THEN <<>> ELSE <<LF>>)

LineUnits == DOMAIN TextOf

\* the units that are not the encoding of a line
RawOf ==
    [flush  |-> <<"0", "0", "0", "0">>,
     sep4   |-> <<"0", "0", "0", "4">>,
     short  |-> <<"0", "0", "0", "3">>,
     nonhex |-> <<"0", "0", "g", "0">>,
     plus   |-> <<"+", "0", "0", "6", "y", LF>>,
     ff     |-> <<xFF, "0", "0", "0">>,
     part   |-> <<"0", "0">>,
     long   |-> <<"0", "0", "0", "9", "a", "b">>]

RawUnits == DOMAIN RawOf

\* the units a payload may be made of freely, and those it holds few of
LiveUnits == {"svc", "flush", "head", "ref1"}

OtherUnits == (LineUnits \cup RawUnits) \ LiveUnits

Wire(u) == IF u \in LineUnits THEN PktLine(LineOf(u)) ELSE RawOf[u]

RECURSIVE Flatten(_)
Flatten(us) == IF us = <<>> THEN <<>> ELSE Wire(Head(us)) \o Flatten(Tail(us))

\* the sequences of at most MaxUnits units, one of them at most not a live one
UnitSeqs ==
    UNION {
      {us \in [1..n -> LiveUnits \cup OtherUnits] :
           \A i, j \in 1..n : us[i] \in OtherUnits /\ us[j] \in OtherUnits => i = j}
      : n \in 0..MaxUnits}

\* ------------------------------------------------------------------------
\* State
\* ------------------------------------------------------------------------

VARIABLES
    units,        \* the units the stream is made of
    payload,      \* the bytes of the stream (the body behind the reader)
    pos,          \* how many of them have been read
    data,         \* the buffer  data: Vec<u8>
    state,        \* Parser.state
    line_idx,     \* Parser.line_idx
    refs,         \* the refs collected so far
    pc,           \* where the caller of the parser stands
    last,         \* the ParseResult of the last invocation of update
    result,       \* what parse (or a client's call of finalize) returned
    body_result,  \* what parse_body returned
    log           \* what the invocations of update consumed, in order

\* LsRemote::call and LsRemoteFuture (lib.rs)
VARIABLES
    url,          \* LsRemoteRequest.https_clone_url, as call left it
    future,       \* the FutureState of the LsRemoteFuture
    future_err,   \* the Error a FutureState::Error holds
    requested,    \* client.get(uri) has been called
    status,       \* the status of the response, <<>> before it arrived
    received,     \* what the Concat2 of the response body has accumulated
    poll_pc,      \* where the poller of the future stands
    polled,       \* what the last poll returned
    panicked      \* a poll has reached unreachable!()

future_vars == <<url, future, future_err, requested, status, received, poll_pc,
                 polled, panicked>>

\* Engine::analyze_dependencies (engine/mod.rs)
VARIABLES
    repo_path,    \* the RepoPath that is analyzed
    stage,        \* which future of analyze_dependencies is being polled
    head,         \* what find_head_oid resolved to
    crawl,        \* the CrawlManifestFuture: its arguments and its progress
    fetched,      \* the calls of retrieve_manifest_at_path, in order
    analyses,     \* the AnalyzeDependenciesFutures given to join_all
    outcome,      \* what analyze_dependencies resolved to
    ratio         \* what outdated_ratio returned for the outcome

engine_vars == <<repo_path, stage, head, crawl, fetched, analyses, outcome,
                 ratio>>

\* a Cache of the Engine (utils/cache, made in Engine::new) and its callers
VARIABLES
    cache,        \* the configuration of the instance: ttl and capacity
    entries,      \* the entry of every key: absent, pending or ready
    lru,          \* the keys of the ready entries, the least recently used first
    now,          \* the clock
    callers,      \* the calls of get: the key, the computation waited for, the result
    inflight,     \* the computations of the interactor that are running
    invocations   \* how often the interactor has been called for a key

cache_vars == <<cache, entries, lru, now, callers, inflight, invocations>>

\* what the decoders of the ref advertisement leave alone
rest_vars == <<future_vars, engine_vars, cache_vars>>

vars == <<units, payload, pos, data, state, line_idx, refs, pc, last, result,
          body_result, log, rest_vars>>

Parser == [state |-> state, line_idx |-> line_idx]

Min(a, b) == IF a < b THEN a ELSE b

\* the lengths body.read may return while bytes are left
ChunkSizes == (1..SmallChunk) \cup {BufSize}

\* what an invocation of update that returned u consumed
Event(p, u) ==
    IF u.again
    THEN IF u.p.state.tag = "AwaitingLength" THEN <<"sep">> ELSE <<"len">>
    ELSE IF u.res.tag = "Error" THEN <<"error">>
    ELSE IF u.res.tag = "Yield" THEN <<"yield">>
    ELSE IF u.res.tag = "End" THEN <<"end">>
    ELSE IF u.p.line_idx # p.line_idx THEN <<"svc">>
    ELSE <<>>

\* no LsRemoteFuture has been made
NoFuture ==
    /\ url = <<>>
    /\ future = "None"
    /\ future_err = NoError
    /\ requested = FALSE
    /\ status = <<>>
    /\ received = <<>>
    /\ poll_pc = "new"
    /\ polled = RNone
    /\ panicked = FALSE

\* a result that carries an object id: of find_head_oid
HNone == [tag |-> "None", oid |-> <<>>, err |-> NoError]

HOk(oid) == [tag |-> "Ok", oid |-> oid, err |-> NoError]

HErr(e) == [tag |-> "Err", oid |-> <<>>, err |-> e]

\* a result that carries crates: of the crawl, of join_all, of the analysis
CNone == [tag |-> "None", crates |-> <<>>, err |-> NoError]

COk(cs) == [tag |-> "Ok", crates |-> cs, err |-> NoError]

CErr(e) == [tag |-> "Err", crates |-> <<>>, err |-> e]

\* no CrawlManifestFuture has been made
NoCrawl == [oid |-> <<>>, entry_point |-> "", pending |-> {}, visited |-> {},
            crates |-> <<>>, res |-> CNone]

\* analyze_dependencies has not been called
NoEngine ==
    /\ repo_path = <<>>
    /\ stage = "none"
    /\ head = HNone
    /\ crawl = NoCrawl
    /\ fetched = <<>>
    /\ analyses = <<>>
    /\ outcome = CNone
    /\ ratio = <<>>

\* no cache is looked at
NoCache ==
    /\ cache = [ttl |-> <<>>, capacity |-> 0]
    /\ entries = <<>>
    /\ lru = <<>>
    /\ now = 0
    /\ callers = <<>>
    /\ inflight = {}
    /\ invocations = <<>>

RestInit == NoFuture /\ NoEngine /\ NoCache

InitCommon ==
    /\ RestInit
    /\ units \in UnitSeqs
    /\ payload = Flatten(units)
    /\ pos = 0
    /\ data = <<>>
    /\ state = new.state
    /\ line_idx = new.line_idx
    /\ refs = <<>>
    /\ last = PNone
    /\ result = RNone
    /\ body_result = RNone
    /\ log = <<>>

\* ------------------------------------------------------------------------
\* parse (parser.rs): the driver of the incremental decoder, over a reader
\* that hands the payload out in chunks; then parse_body over the same body
\* ------------------------------------------------------------------------

Init == InitCommon /\ pc = "read"

\* body.read returned len > 0: data.extend(buf[..len])
Read(k) ==
    /\ pc = "read"
    /\ pos < Len(payload)
    /\ LET len == Min(Min(k, BufSize), Len(payload) - pos)
       IN  /\ data' = data \o SubSeq(payload, pos + 1, pos + len)
           /\ pos' = pos + len
    /\ pc' = "update"
    /\ UNCHANGED rest_vars
    /\ UNCHANGED <<units, payload, state, line_idx, refs, last, result,
                   body_result, log>>

\* body.read returned 0: parser.finalize()?; return Ok(refs)
EndOfStream ==
    /\ pc = "read"
    /\ pos = Len(payload)
    /\ result' = IF finalize(Parser).tag = "Ok" THEN ROk(refs) ELSE finalize(Parser)
    /\ pc' = "done"
    /\ UNCHANGED rest_vars
    /\ UNCHANGED <<units, payload, pos, data, state, line_idx, refs, last,
                   body_result, log>>

\* one invocation of parser.update, and the match on what it returned
Invoke(from) ==
    /\ pc = from
    /\ LET u == update(Parser, data)
       IN  /\ state' = u.p.state
           /\ line_idx' = u.p.line_idx
           /\ data' = u.data
           /\ last' = u.res
           /\ log' = log \o Event(Parser, u)
           /\ IF u.again
              THEN pc' = "self" /\ UNCHANGED <<refs, result>>
              ELSE IF u.res.tag = "Error"
              THEN pc' = "done" /\ result' = RErr(u.res.err) /\ UNCHANGED refs
              ELSE IF u.res.tag = "Yield"
              THEN pc' = "update" /\ refs' = Append(refs, u.res.ref)
                   /\ UNCHANGED result
              ELSE IF u.res.tag = "Incomplete"
              THEN pc' = "read" /\ UNCHANGED <<refs, result>>
              ELSE pc' = "done" /\ result' = ROk(refs) /\ UNCHANGED refs
    /\ UNCHANGED rest_vars
    /\ UNCHANGED <<units, payload, pos, body_result>>

\* the call of update in the loop of parse
Update == Invoke("update")

\* `return self.update(data)`
SelfCall == Invoke("self")

\* parse_body over a cursor on the whole body
ParseBody ==
    /\ pc = "done"
    /\ body_result.tag = "None"
    /\ body_result' = parse_body(payload)
    /\ UNCHANGED rest_vars
    /\ UNCHANGED <<units, payload, pos, data, state, line_idx, refs, pc, last,
                   result, log>>

Next ==
    \/ \E k \in ChunkSizes : Read(k)
    \/ EndOfStream
    \/ Update
    \/ SelfCall
    \/ ParseBody

Spec == Init /\ [][Next]_vars

\* ------------------------------------------------------------------------
\* A client of Parser: it appends a chunk to the empty buffer or after update
\* returned Incomplete, calls update as often as it likes (also with an empty
\* or a partial buffer) until update returns End or an error, and calls
\* finalize when it likes.  last is the result of the last call of update on
\* the buffer as it is; appending to the buffer forgets it
\* ------------------------------------------------------------------------

ApiInit == InitCommon /\ pc = "idle"

ApiAppend(k) ==
    /\ pc = "idle"
    /\ last.tag = "Incomplete" \/ (last.tag = "None" /\ data = <<>>)
    /\ pos < Len(payload)
    /\ LET len == Min(Min(k, BufSize), Len(payload) - pos)
       IN  /\ data' = data \o SubSeq(payload, pos + 1, pos + len)
           /\ pos' = pos + len
    /\ last' = PNone
    /\ UNCHANGED rest_vars
    /\ UNCHANGED <<units, payload, state, line_idx, refs, pc, result,
                   body_result, log>>

ApiInvoke(from) ==
    /\ pc = from
    /\ LET u == update(Parser, data)
       IN  /\ state' = u.p.state
           /\ line_idx' = u.p.line_idx
           /\ data' = u.data
           /\ last' = u.res
           /\ log' = log \o Event(Parser, u)
           /\ refs' = IF u.res.tag = "Yield" THEN Append(refs, u.res.ref) ELSE refs
           /\ pc' = IF u.again THEN "self"
                    ELSE IF u.res.tag \in {"Error", "End"} THEN "stopped"
                    ELSE "idle"
    /\ UNCHANGED rest_vars
    /\ UNCHANGED <<units, payload, pos, result, body_result>>

ApiUpdate == ApiInvoke("idle")

ApiSelfCall == ApiInvoke("self")

ApiFinalize ==
    /\ pc \in {"idle", "stopped"}
    /\ result' = finalize(Parser)
    /\ pc' = "finalized"
    /\ UNCHANGED rest_vars
    /\ UNCHANGED <<units, payload, pos, data, state, line_idx, refs, last,
                   body_result, log>>

ApiNext ==
    \/ \E k \in ChunkSizes : ApiAppend(k)
    \/ ApiUpdate
    \/ ApiSelfCall
    \/ ApiFinalize

SpecApi == ApiInit /\ [][ApiNext]_vars

\* ------------------------------------------------------------------------
\* parse over a reader that returns the whole body from its first read
\* ------------------------------------------------------------------------

\* the inner loop of parse: update until it returns something else than Yield
RECURSIVE drain(_, _, _)
drain(p, d, rs) ==
    LET u == update_call(p, d)
    IN  IF u.res.tag = "Yield"
        THEN drain(u.p, u.data, Append(rs, u.res.ref))
        ELSE [p |-> u.p, refs |-> rs, res |-> u.res]

\* the refs yielded and what parse returns
parse_one_chunk(body) ==
    LET r == IF body = <<>>
             THEN [p |-> new, refs |-> <<>>, res |-> PIncomplete]
             ELSE drain(new, body, <<>>)
    IN  [refs   |-> r.refs,
         result |-> IF r.res.tag = "Error" THEN RErr(r.res.err)
                    ELSE IF r.res.tag = "End" THEN ROk(r.refs)
                    ELSE IF finalize(r.p).tag = "Ok" THEN ROk(r.refs)
                    ELSE finalize(r.p)]

\* ------------------------------------------------------------------------
\* LsRemote::call and LsRemoteFuture::poll (lib.rs)
\* ------------------------------------------------------------------------

\* what call appends to the clone URL
INFO_REFS == <<"/", "i", "n", "f", "o", "/", "r", "e", "f", "s", "?", "s", "e",
               "r", "v", "i", "c", "e", "=", "g", "i", "t", "-", "u", "p", "l",
               "o", "a", "d", "-", "p", "a", "c", "k">>

\* req.https_clone_url.parse(): a URI holds no space
parse_uri(s) == find(s, SP) = 0

\* LsRemote::call: the URL as call left it, the FutureState of the future it
\* returns, and whether it called client.get
call(https_clone_url) ==
    LET s == https_clone_url \o INFO_REFS
    IN  IF parse_uri(s)
        THEN [url |-> s, state |-> "Request", err |-> NoError, requested |-> TRUE]
        ELSE [url |-> s, state |-> "Error", err |-> Error("Uri", <<>>),
              requested |-> FALSE]

NotReady == [tag |-> "NotReady", refs |-> <<>>, err |-> NoError]

\* the LsRemoteFuture as a value
Future == [state |-> future, received |-> received, status |-> status]

\* what an invocation of poll leaves and returns; again: it ended in self.poll()
Polled(f, res, again) == [f |-> f, res |-> res, again |-> again, panic |-> FALSE]

\* the FutureState was taken by mem::replace and not put back
Taken(f) == [f EXCEPT !.state = "Swapping"]

is_success_below_400(code) == 200 <= code /\ code < 400

\* response.status().is_success()
is_success(code) == 200 <= code /\ code < 300

poll_request_not_restored(f, ev) ==
    IF ev.out = "Err" THEN Polled(Taken(f), RErr(Error("Hyper", <<>>)), FALSE)
    ELSE IF ev.out = "NotReady" THEN Polled(Taken(f), NotReady, FALSE)
    ELSE IF is_success(ev.code)
    THEN Polled([f EXCEPT !.state = "Streaming", !.status = <<ev.code>>],
                RNone, TRUE)
    ELSE Polled([Taken(f) EXCEPT !.status = <<ev.code>>],
                RErr(Error("UnexpectedStatusCode", <<ev.code>>)), FALSE)

\* poll in FutureState::Request; ev is what the poll of the FutureResponse gave
poll_request(f, ev) ==
    IF ev.out = "Err" THEN Polled(Taken(f), RErr(Error("Hyper", <<>>)), FALSE)
    ELSE IF ev.out = "NotReady" THEN Polled(f, NotReady, FALSE)
    ELSE IF is_success(ev.code)
    THEN Polled([f EXCEPT !.state = "Streaming", !.status = <<ev.code>>],
                RNone, TRUE)
    ELSE Polled([Taken(f) EXCEPT !.status = <<ev.code>>],
                RErr(Error("UnexpectedStatusCode", <<ev.code>>)), FALSE)

\* poll in FutureState::Streaming; ev is what the poll of the Concat2 gave,
\* after it took ev.bytes from the body
poll_streaming(f, ev) ==
    LET got == [f EXCEPT !.received = f.received \o ev.bytes]
    IN  IF ev.out = "Err"
        THEN Polled(Taken(got), RErr(Error("Hyper", <<>>)), FALSE)
        ELSE IF ev.out = "NotReady" THEN Polled(got, NotReady, FALSE)
        ELSE Polled(Taken(got), parse_body(got.received), FALSE)

\* one invocation of LsRemoteFuture::poll
poll(f, e, ev) ==
    IF f.state = "Request" THEN poll_request(f, ev)
    ELSE IF f.state = "Streaming" THEN poll_streaming(f, ev)
    ELSE IF f.state = "Error" THEN Polled(Taken(f), RErr(e), FALSE)
    ELSE [Polled(f, RNone, FALSE) EXCEPT !.panic = TRUE]

\* ------------------------------------------------------------------------
\* Engine::find_head_oid and Engine::analyze_dependencies (engine/mod.rs).
\* The crawl of the manifests and the analysis of a crate are futures of
\* engine/futures, which resolve as section 4.4 and 4.5 of the specification
\* describe them
\* ------------------------------------------------------------------------

\* the units of the response bodies that TextOf does not hold: a ref named
\* HEAD without capabilities, and a first ref that is not HEAD
BodyTextOf ==
    [head2 |-> <<"e", "f", SP>> \o HEADNAME,
     tag   |-> <<"c", "d", SP, "t", NUL, "m">>]

BodyUnits == {"svc", "head", "head2", "tag", "short"}

BodyWire(u) ==
    IF u \in DOMAIN BodyTextOf THEN PktLine(BodyTextOf[u] \o <<LF>>) ELSE Wire(u)

RECURSIVE BodyFlatten(_)
BodyFlatten(us) ==
    IF us = <<>> THEN <<>> ELSE BodyWire(Head(us)) \o BodyFlatten(Tail(us))

\* the response bodies of at most MaxUnits units: the empty one, those of one
\* unit, and those that begin with the service line and do not repeat it
BodySeqs ==
    {<<>>} \cup {<<u>> : u \in BodyUnits}
    \cup UNION {{<<"svc">> \o t : t \in [1..n -> BodyUnits \ {"svc"}]}
               : n \in 1..(MaxUnits - 1)}

\* the response bodies of the runs that go on to the crawl and the analysis
EngineBodies ==
    {<<"svc", "head">>, <<"svc", "tag", "head2">>, <<"svc", "head2">>,
     <<"svc", "head", "short">>}

\* the statuses a response may have
Statuses == {200, 299, 300}

\* site.to_base_uri() of the one site of the model
BASE_URI == <<"h", "t", "t", "p", "s", ":", "/", "/", "g", "i", "t", "h", "u",
              "b", ".", "c", "o", "m">>

\* the repositories: the name of the second does not make a URI
RepoPaths ==
    {[site |-> BASE_URI, qual |-> <<"q">>, name |-> <<"n">>],
     [site |-> BASE_URI, qual |-> <<"q">>, name |-> <<"n", SP, "n">>]}

\* format!("{}/{}/{}.git", ..) of find_head_oid
clone_url(rp) ==
    rp.site \o <<"/">> \o rp.qual \o <<"/">> \o rp.name \o <<".", "g", "i", "t">>

find_head_first_ref(rs) ==
    IF rs = <<>> THEN HErr(Error("HEAD ref not found", <<>>)) ELSE HOk(rs[1].oid)

\* the closure of find_head_oid: refs.into_iter().find(|r| r.name == "HEAD")
find_head(rs) ==
    LET heads == {i \in 1..Len(rs) : rs[i].name = HEADNAME}
    IN  IF heads = {}
        THEN HErr(Error("HEAD ref not found", <<>>))
        ELSE HOk(rs[CHOOSE i \in heads : \A j \in heads : i <= j].oid)

\* what find_head_oid resolves to when the LsRemoteFuture returned res
find_head_oid(res) == IF res.tag = "Ok" THEN find_head(res.refs) ELSE HErr(res.err)

and_then_on_any(r) == r.tag # "None"

\* a.and_then(f): f is called when a resolved, and resolved to a value
and_then(r) == r.tag = "Ok"

\* RelativePath::new("/")
ROOT == "/"

\* CrawlManifestFuture::new(&engine, repo_path, oid, entry_point)
crawl_from(oid) ==
    [oid |-> oid, entry_point |-> ROOT, pending |-> {ROOT}, visited |-> {ROOT},
     crates |-> <<>>, res |-> CNone]

\* the key retrieve_manifest_at_path hands to the cache of RetrieveFileAtPath
retrieve_manifest_at_path(rp, oid, path) ==
    [repo_path |-> rp, oid |-> oid, manifest_path |-> <<path, "Cargo.toml">>]

RECURSIVE values(_)
\* the values of futures that all resolved to one
values(fs) ==
    IF fs = <<>> THEN <<>>
    ELSE <<[name |-> Head(fs).name, deps |-> Head(fs).res.deps]>> \o values(Tail(fs))

join_all_skips_failed(fs) ==
    IF \E i \in 1..Len(fs) : fs[i].res.tag = "None" THEN CNone
    ELSE COk(values(SelectSeq(fs, LAMBDA f : f.res.tag = "Ok")))

\* join_all(futures) after a poll: the error of the future that failed, the
\* values of all of them in their order, or nothing yet
join_all(fs) ==
    IF \E i \in 1..Len(fs) : fs[i].res.tag = "Err"
    THEN CErr(fs[CHOOSE i \in 1..Len(fs) : fs[i].res.tag = "Err"].res.err)
    ELSE IF \A i \in 1..Len(fs) : fs[i].res.tag = "Ok" THEN COk(values(fs))
    ELSE CNone

RECURSIVE fold(_, _)
\* self.crates.iter().fold(acc, |(outdated, total), &(_, ref deps)| ..)
fold(crates, acc) ==
    IF crates = <<>> THEN acc
    ELSE fold(Tail(crates), <<acc[1] + Head(crates).deps.outdated,
                              acc[2] + Head(crates).deps.total>>)

outdated_ratio_of_last(crates) ==
    IF crates = <<>> THEN <<0, 0>>
    ELSE fold(<<crates[Len(crates)]>>, <<0, 0>>)

\* AnalyzeDependenciesOutcome::outdated_ratio
outdated_ratio(crates) == fold(crates, <<0, 0>>)

\* what an AnalyzeDependenciesFuture resolved to
ANone == [tag |-> "None", deps |-> [outdated |-> 0, total |-> 0], err |-> NoError]

AOk(deps) == [tag |-> "Ok", deps |-> deps, err |-> NoError]

AErr(e) == [tag |-> "Err", deps |-> [outdated |-> 0, total |-> 0], err |-> e]

\* the paths of the manifests of a repository below its root
SubPaths == {"/a", "/b"}

\* the dependency lists a manifest may declare
DepLists == {<<>>, <<"d1">>, <<"d1", "d2">>}

\* what the retrieval of the manifest at a path may give: no file, a manifest
\* without a package, or the manifest of the package of that path; subs are
\* the paths of the sub-packages it refers to
Manifests(path) ==
    {[found |-> FALSE, package |-> FALSE, name |-> path, deps |-> <<>>, subs |-> {}]}
    \cup {[found |-> TRUE, package |-> FALSE, name |-> path, deps |-> <<>>,
           subs |-> ss] : ss \in SUBSET SubPaths}
    \cup {[found |-> TRUE, package |-> TRUE, name |-> path, deps |-> d,
           subs |-> ss] : d \in DepLists, ss \in SUBSET SubPaths}

\* what the analysis of a dependency list may resolve to: the query of the
\* registry failed, or every dependency is classified
Analyzed(deps) ==
    {AErr(Error("QueryCrate", <<>>))}
    \cup {AOk([outdated |-> o, total |-> Len(deps)]) : o \in 0..Len(deps)}

\* the closure of manifest_future.and_then: one future for each crate
analyze_crates(crates) ==
    [i \in 1..Len(crates) |->
        [name |-> crates[i].name, deps |-> crates[i].deps, res |-> ANone]]

decoder_vars == <<data, state, line_idx, refs, pc, last, result, body_result, log>>

\* analyze_dependencies is called for a repository whose ref advertisement
\* is one of bodies
EngineStart(bodies) ==
    /\ units \in bodies
    /\ payload = BodyFlatten(units)
    /\ pos = 0
    /\ data = <<>>
    /\ state = new.state
    /\ line_idx = new.line_idx
    /\ refs = <<>>
    /\ pc = "none"
    /\ last = PNone
    /\ result = RNone
    /\ body_result = RNone
    /\ log = <<>>
    /\ NoFuture
    /\ NoCache
    /\ repo_path \in RepoPaths
    /\ stage = "none"
    /\ head = HNone
    /\ crawl = NoCrawl
    /\ fetched = <<>>
    /\ analyses = <<>>
    /\ outcome = CNone
    /\ ratio = <<>>

EngineInit == EngineStart(EngineBodies)

\* analyze_dependencies up to self.find_head_oid(&repo_path), which calls
\* self.git_ls_remote.call(req)
FindHeadOid ==
    /\ stage = "none"
    /\ LET c == call(clone_url(repo_path))
       IN  /\ url' = c.url
           /\ future' = c.state
           /\ future_err' = c.err
           /\ requested' = c.requested
    /\ poll_pc' = "idle"
    /\ stage' = "head"
    /\ UNCHANGED cache_vars
    /\ UNCHANGED <<status, received, polled, panicked, repo_path, head, crawl,
                   fetched, analyses, outcome, ratio, units, payload, pos,
                   decoder_vars>>

\* the futures join_all was given are polled: analyze_dependencies resolves
\* or goes on waiting
PollJoinAll(fs) ==
    LET j == join_all(fs)
    IN  IF j.tag = "None"
        THEN stage' = "analyze" /\ UNCHANGED outcome
        ELSE stage' = "done" /\ outcome' = j

\* one invocation of LsRemoteFuture::poll and, when it returned a result, the
\* closures of find_head_oid and of analyze_dependencies that take it
PollStep(ev) ==
    /\ stage = "head"
    /\ poll_pc \in {"idle", "self"}
    /\ LET r == poll(Future, future_err, ev)
           h == find_head_oid(r.res)
       IN  /\ future' = r.f.state
           /\ received' = r.f.received
           /\ status' = r.f.status
           /\ polled' = r.res
           /\ panicked' = r.panic
           /\ pos' = pos + Len(ev.bytes)
           /\ IF r.again
              THEN poll_pc' = "self" /\ UNCHANGED <<stage, head, crawl, outcome>>
              ELSE IF r.res.tag = "NotReady"
              THEN poll_pc' = "idle" /\ UNCHANGED <<stage, head, crawl, outcome>>
              ELSE /\ poll_pc' = "done"
                   /\ head' = h
                   /\ IF and_then(h)
                      THEN /\ crawl' = crawl_from(h.oid)
                           /\ stage' = "crawl"
                           /\ UNCHANGED outcome
                      ELSE /\ outcome' = CErr(h.err)
                           /\ stage' = "done"
                           /\ UNCHANGED crawl
    /\ UNCHANGED cache_vars
    /\ UNCHANGED <<url, future_err, requested, repo_path, fetched, analyses,
                   ratio, units, payload, decoder_vars>>

\* poll while the response is awaited
PollRequest(out, code) ==
    /\ future = "Request"
    /\ PollStep([out |-> out, code |-> code, bytes |-> <<>>])

\* poll while the body is read: the Concat2 takes the chunks that arrived, at
\* most k bytes, and is ready when the body ended
PollStreaming(out, k) ==
    /\ future = "Streaming"
    /\ LET len == Min(k, Len(payload) - pos)
       IN  /\ out = "Ready" => pos + len = Len(payload)
           /\ PollStep([out |-> out, code |-> 0,
                        bytes |-> SubSeq(payload, pos + 1, pos + len)])

\* poll of a future that holds no inner future
PollError ==
    /\ future \in {"Error", "Swapping"}
    /\ PollStep([out |-> "Err", code |-> 0, bytes |-> <<>>])

\* the CrawlManifestFuture retrieves the manifest at a path it has found and
\* gets m; when no path is left it resolves, and the closure of
\* manifest_future.and_then makes the futures of join_all
Fetch(path, m) ==
    /\ stage = "crawl"
    /\ path \in crawl.pending
    /\ fetched' = Append(fetched,
                         retrieve_manifest_at_path(repo_path, crawl.oid, path))
    /\ LET found == m.subs \ crawl.visited
           pend  == (crawl.pending \ {path}) \cup found
           cs    == crawl.crates
                    \o (IF m.package
                        THEN <<[name |-> m.name, deps |-> m.deps]>> ELSE <<>>)
           res   == IF ~m.found THEN CErr(Error("NotFound", <<>>))
                    ELSE IF pend = {} THEN COk(cs)
                    ELSE CNone
       IN  /\ crawl' = [crawl EXCEPT !.pending = IF m.found THEN pend ELSE {},
                                     !.visited = crawl.visited \cup found,
                                     !.crates = cs,
                                     !.res = res]
           /\ IF res.tag = "None"
              THEN UNCHANGED <<stage, analyses, outcome>>
              ELSE IF and_then(res)
              THEN /\ analyses' = analyze_crates(res.crates)
                   /\ PollJoinAll(analyses')
              ELSE /\ outcome' = CErr(res.err)
                   /\ stage' = "done"
                   /\ UNCHANGED analyses
    /\ UNCHANGED cache_vars
    /\ UNCHANGED <<future_vars, repo_path, head, ratio, units, payload, pos,
                   decoder_vars>>

\* the AnalyzeDependenciesFuture of the i-th crate resolves to r
Analyze(i, r) ==
    /\ stage = "analyze"
    /\ i \in 1..Len(analyses)
    /\ analyses[i].res.tag = "None"
    /\ r \in Analyzed(analyses[i].deps)
    /\ analyses' = [analyses EXCEPT ![i].res = r]
    /\ PollJoinAll(analyses')
    /\ UNCHANGED cache_vars
    /\ UNCHANGED <<future_vars, repo_path, head, crawl, fetched, ratio, units,
                   payload, pos, decoder_vars>>

\* a caller asks the outcome for its ratio
OutdatedRatio ==
    /\ stage = "done"
    /\ outcome.tag = "Ok"
    /\ ratio = <<>>
    /\ ratio' = outdated_ratio(outcome.crates)
    /\ UNCHANGED cache_vars
    /\ UNCHANGED <<future_vars, repo_path, stage, head, crawl, fetched,
                   analyses, outcome, units, payload, pos, decoder_vars>>

EngineNext ==
    \/ FindHeadOid
    \/ \E out \in {"Err", "NotReady", "Ready"}, code \in Statuses :
           PollRequest(out, code)
    \/ \E out \in {"Err", "NotReady", "Ready"}, k \in {0} \cup ChunkSizes :
           PollStreaming(out, k)
    \/ PollError
    \/ \E path \in {ROOT} \cup SubPaths : \E m \in Manifests(path) : Fetch(path, m)
    \/ \E i \in 1..Cardinality({ROOT} \cup SubPaths) :
           \E r \in UNION {Analyzed(d) : d \in DepLists} : Analyze(i, r)
    \/ OutdatedRatio

SpecEngine == EngineInit /\ [][EngineNext]_vars

\* ------------------------------------------------------------------------
\* find_head_oid alone, over every response body of BodySeqs
\* ------------------------------------------------------------------------

HeadInit == EngineStart(BodySeqs)

HeadNext ==
    \/ FindHeadOid
    \/ \E out \in {"Err", "NotReady", "Ready"}, code \in Statuses :
           PollRequest(out, code)
    \/ \E out \in {"Err", "NotReady", "Ready"}, k \in {0} \cup ChunkSizes :
           PollStreaming(out, k)
    \/ PollError

SpecHead == HeadInit /\ [][HeadNext]_vars

\* ------------------------------------------------------------------------
\* Properties
\* ------------------------------------------------------------------------

UnexpectedEndOfPayload == RErr(Error("UnexpectedEndOfPayload", <<>>))

\* the number of lines the invocations of update took without an error
RECURSIVE Accepted(_)
Accepted(l) ==
    IF l = <<>> THEN 0
    ELSE Accepted(Tail(l)) + (IF Head(l) \in {"svc", "yield", "end"} THEN 1 ELSE 0)

\* the buffer holds fewer bytes than the state of the decoder asks for
NeedsMore ==
    \/ state.tag = "AwaitingLength" /\ Len(data) < 4
    \/ state.tag = "AwaitingLineOfLength" /\ Len(data) < state.len

\* C1: however the reader cuts the payload into chunks, parse yields the
\* refs, in the order, and returns the result (the refs or the error) that
\* it yields and returns when the whole payload comes as one chunk.
ChunkBoundaryIndependence ==
    pc = "done" =>
        /\ refs = parse_one_chunk(payload).refs
        /\ result = parse_one_chunk(payload).result

\* C2 (as claimed): once update has reported End for an empty ref list,
\* finalize succeeds.
FinalizeOkAfterEmptyList ==
    (pc = "finalized" /\ last.tag = "End") => result.tag = "Ok"

\* C3: finalize called when fewer than two lines have been accepted returns
\* UnexpectedEndOfPayload.
FinalizeFailsBeforeTwoLines ==
    (pc = "finalized" /\ Accepted(log) < 2) => result = UnexpectedEndOfPayload

\* finalize has been called on a partial second line
FinalizedOnPartialSecondLine ==
    /\ pc = "finalized"
    /\ Accepted(log) = 1
    /\ state.tag = "AwaitingLineOfLength"
    /\ data # <<>>
    /\ result = UnexpectedEndOfPayload

\* C4: an invocation of update on a buffer that holds fewer bytes than the
\* state asks for returns Incomplete and changes neither the buffer nor the
\* parser (nor yields a ref).
ShortBufferUntouched ==
    [][(pc \in {"idle", "self"} /\ pos' = pos /\ pc' # "finalized" /\ NeedsMore)
         => /\ last' = PIncomplete
            /\ data' = data
            /\ state' = state
            /\ line_idx' = line_idx
            /\ refs' = refs
            /\ pc' = "idle"]_vars

\* update has returned Incomplete on a partial line, after a first ref
IncompleteOnPartialLine ==
    /\ pc = "idle"
    /\ last = PIncomplete
    /\ state.tag = "AwaitingLineOfLength"
    /\ data # <<>>
    /\ Len(refs) = 1

HexDigitChars ==
    {"0", "1", "2", "3", "4", "5", "6", "7", "8", "9",
     "a", "b", "c", "d", "e", "f", "A", "B", "C", "D", "E", "F"}

FourHex(b) == \A i \in 1..4 : b[i] \in HexDigitChars

PlusThreeHex(b) == b[1] = "+" /\ \A i \in 2..4 : b[i] \in HexDigitChars

\* the length prefixes of value 1, 2 and 3
SmallLengths ==
    {<<a, "0", "0", d>> : a \in {"0", "+"}, d \in {"1", "2", "3"}}

\* the length prefixes of a separator unit
Separators == {<<"0", "0", "0", "0">>, <<"0", "0", "0", "4">>}

\* the next step is an invocation of update that takes a length prefix
LengthStep ==
    /\ pc \in {"update", "self"}
    /\ state.tag = "AwaitingLength"
    /\ Len(data) >= 4

Prefix == SubSeq(data, 1, 4)

\* the invocation fails with error e and yields nothing
FailsWith(e) ==
    /\ last' = PError(e)
    /\ refs' = refs
    /\ pc' = "done"
    /\ result' = RErr(e)

SeparatorConsumed ==
    [][(LengthStep /\ Prefix \in Separators) =>
         /\ data' = SubSeq(data, 5, Len(data))
         /\ line_idx' = line_idx
         /\ state' = AwaitingLength
         /\ refs' = refs
         /\ last' = PNone
         /\ result' = result
         /\ pc' = "self"]_vars

\* two separator units in a row have been consumed after the service line
TwoSeparatorsConsumed ==
    /\ line_idx = 1
    /\ pc = "self"
    /\ \E i \in 1..(Len(log) - 1) : log[i] = "sep" /\ log[i + 1] = "sep"

IsSep(u) == u \in {"flush", "sep4"}

\* the units of a payload that are not separator units
NonSep(us) == SelectSeq(us, LAMBDA u : ~IsSep(u))

\* the units that carry a line of text
TextUnits == LineUnits \ {"badtxt"}

\* every unit of the payload is a separator or carries a line of text
AllFramed(us) == \A i \in 1..Len(us) : IsSep(us[i]) \/ us[i] \in TextUnits

\* the refs the lines of the ref-line units stand for
RefOf ==
    [head   |-> Ref(HEADNAME, <<"a", "b">>),
     head40 |-> Ref(HEADNAME, Oid40),
     ref1   |-> Ref(<<"r", "1">>, <<"c", "d">>),
     ref2   |-> Ref(<<"r", SP, "2">>, <<"e", "f">>)]

\* the service line, a ref line with capabilities, ref lines; separators
\* anywhere
WellFormed(us) ==
    LET ls == NonSep(us)
    IN  /\ Len(ls) >= 2
        /\ ls[1] = "svc"
        /\ ls[2] \in {"head", "head40"}
        /\ \A i \in 3..Len(ls) : ls[i] \in {"ref1", "ref2"}

ExpectedRefs(us) ==
    LET ls == NonSep(us) IN [i \in 1..(Len(ls) - 1) |-> RefOf[ls[i + 1]]]

\* C7 (as claimed): parse returns, for the service line followed by k ref
\* lines (the first with capabilities) and separators anywhere, the k refs
\* of these lines in their order.
WellFormedPayloadYieldsAll ==
    (pc = "done" /\ WellFormed(units)) => result = ROk(ExpectedRefs(units))

\* C8: when the first line of the stream is not the service line, no ref is
\* ever yielded and parse fails with InvalidLine of that line, whatever
\* follows; so does parse_body when the whole body can be cut into lines.
FirstLineRule ==
    LET ls == NonSep(units)
    IN  (ls # <<>> /\ ls[1] \in TextUnits \ {"svc"}) =>
            /\ refs = <<>>
            /\ pc = "done" => result = RErr(Error("InvalidLine", TextOf[ls[1]]))
            /\ (body_result.tag # "None" /\ AllFramed(units)) =>
                   body_result = RErr(Error("InvalidLine", TextOf[ls[1]]))

\* a stream whose first line is not the service line, followed by ref
\* lines, has been rejected by parse and by parse_body
FirstLineRejected ==
    /\ pc = "done"
    /\ Len(units) = 3
    /\ units[1] \in {"junk", "svcnl"}
    /\ units[2] = "head"
    /\ units[3] = "ref1"
    /\ result.err.kind = "InvalidLine"
    /\ body_result.tag = "Err"

\* the next step is an invocation of update that takes the second line
SecondLineStep ==
    /\ pc \in {"update", "self"}
    /\ state.tag = "AwaitingLineOfLength"
    /\ line_idx = 1
    /\ Len(data) >= state.len
    /\ \A i \in 1..state.len : data[i] # xFF

\* the line at the head of the buffer, without its newline
HeadLine ==
    IF data[state.len] = LF
    THEN SubSeq(data, 1, state.len - 1)
    ELSE SubSeq(data, 1, state.len)

Has(l, c) == \E i \in 1..Len(l) : l[i] = c

\* what comes before and after the first c of l
Before(l, c) ==
    SubSeq(l, 1, (CHOOSE i \in 1..Len(l) :
                      l[i] = c /\ \A j \in 1..(i - 1) : l[j] # c) - 1)

After(l, c) ==
    SubSeq(l, (CHOOSE i \in 1..Len(l) :
                   l[i] = c /\ \A j \in 1..(i - 1) : l[j] # c) + 1, Len(l))

\* the units of the payload are lines, and the second line has no NUL
EmptyListPayload ==
    /\ AllFramed(units)
    /\ Len(NonSep(units)) >= 2
    /\ NonSep(units)[1] = "svc"
    /\ ~Has(TextOf[NonSep(units)[2]], NUL)

\* C9: the invocation of update that takes the second line: when the line
\* has a NUL, what comes before the NUL is taken as the first ref line (a ref
\* of the oid before its first space and the name after it, or InvalidLine
\* without a space); when it has no NUL, update returns End, no ref is
\* yielded, parse returns the empty list, and no ref is yielded afterwards.
\* parse_body returns the empty list for such a second line too.
SecondLineRule ==
    /\ [][SecondLineStep =>
            IF Has(HeadLine, NUL)
            THEN LET first == Before(HeadLine, NUL)
                 IN  IF Has(first, SP)
                     THEN /\ last' = PYield(Ref(After(first, SP), Before(first, SP)))
                          /\ refs' = <<Ref(After(first, SP), Before(first, SP))>>
                     ELSE FailsWith(Error("InvalidLine", first))
            ELSE /\ last' = PEnd
                 /\ refs' = <<>>
                 /\ pc' = "done"
                 /\ result' = ROk(<<>>)]_vars
    /\ [](last.tag = "End" => (pc = "done" /\ refs = <<>> /\ result = ROk(<<>>)))
    /\ []((body_result.tag # "None" /\ EmptyListPayload) => body_result = ROk(<<>>))

\* parse and parse_body have returned the empty list for a stream with a ref
\* line after a second line without NUL
EmptyListReturned ==
    /\ pc = "done"
    /\ last = PEnd
    /\ Len(units) = 3
    /\ units[3] = "ref1"
    /\ result = ROk(<<>>)
    /\ body_result = ROk(<<>>)

\* C10 (as claimed): every ref yielded has an object id of 40 hexadecimal
\* digits (the lines of another form are rejected).
YieldedRefsHaveFortyHexOid ==
    \A i \in 1..Len(refs) :
        /\ Len(refs[i].oid) = 40
        /\ \A j \in 1..Len(refs[i].oid) : refs[i].oid[j] \in HexDigitChars

\* ------------------------------------------------------------------------
\* A Cache of the Engine.  Engine::new makes one for each interactor
\* (engine/mod.rs); what get does is section 4.3 of the specification:
\* a ready entry within its TTL is returned, a pending computation is
\* waited for, otherwise the interactor is called; a failure is not stored;
\* at capacity the least recently used ready entry is evicted
\* ------------------------------------------------------------------------

\* how many calls of get a run holds
MaxCallers == 3

\* how far the clock runs
MaxTime == 2

Callers == 1..MaxCallers

Keys == {"k1", "k2"}

\* what the interactor may resolve to
Computed == {[tag |-> "Ok", value |-> "a"], [tag |-> "Ok", value |-> "b"],
             [tag |-> "Err", value |-> ""]}

NoValue == [tag |-> "None", value |-> ""]

\* the instances of Engine::new, with the time and the capacity scaled down:
\* query_crate (300 s, 500), get_popular_repos (10 s, 1) and
\* retrieve_file_at_path (no expiry, 500)
Instances ==
    {[ttl |-> <<2>>, capacity |-> 2], [ttl |-> <<1>>, capacity |-> 1],
     [ttl |-> <<>>, capacity |-> 2]}

Absent == [status |-> "absent", value |-> "", inserted_at |-> 0, inv |-> 0]

Pending(inv) == [status |-> "pending", value |-> "", inserted_at |-> 0, inv |-> inv]

Ready(v, t, inv) == [status |-> "ready", value |-> v, inserted_at |-> t, inv |-> inv]

Idle == [state |-> "idle", key |-> "", inv |-> 0, result |-> NoValue]

Waiting(k, inv) == [state |-> "waiting", key |-> k, inv |-> inv, result |-> NoValue]

Done(k, inv, res) == [state |-> "done", key |-> k, inv |-> inv, result |-> res]

lookup_ignores_pending(e, ttl, t) ==
    IF e.status = "ready" /\ (ttl = <<>> \/ t - e.inserted_at < ttl[1])
    THEN "ready"
    ELSE "miss"

\* what get finds for a key: a ready entry within its TTL, a pending
\* computation, or neither
lookup(e, ttl, t) ==
    IF e.status = "ready" /\ (ttl = <<>> \/ t - e.inserted_at < ttl[1])
    THEN "ready"
    ELSE IF e.status = "pending" THEN "pending"
    ELSE "miss"

\* s without the key k
Without(s, k) == SelectSeq(s, LAMBDA x : x # k)

\* the entries after room was made for the key k: at capacity the least
\* recently used ready entry goes; a pending entry never does
evict(es, order, k, capacity) ==
    IF es[k].status = "absent"
       /\ Cardinality({x \in Keys : es[x].status # "absent"}) >= capacity
       /\ Without(order, k) # <<>>
    THEN [es EXCEPT ![Head(Without(order, k))] = Absent]
    ELSE es

CacheInit ==
    /\ units = <<>>
    /\ payload = <<>>
    /\ pos = 0
    /\ data = <<>>
    /\ state = new.state
    /\ line_idx = new.line_idx
    /\ refs = <<>>
    /\ pc = "none"
    /\ last = PNone
    /\ result = RNone
    /\ body_result = RNone
    /\ log = <<>>
    /\ NoFuture
    /\ NoEngine
    /\ cache \in Instances
    /\ entries = [k \in Keys |-> Absent]
    /\ lru = <<>>
    /\ now = 0
    /\ callers = [c \in Callers |-> Idle]
    /\ inflight = {}
    /\ invocations = [k \in Keys |-> 0]

cache_rest == <<units, payload, pos, decoder_vars, future_vars, engine_vars>>

\* the caller c calls get(k)
Get(c, k) ==
    /\ callers[c].state = "idle"
    /\ LET found == lookup(entries[k], cache.ttl, now)
           inv   == invocations[k] + 1
           kept  == evict(entries, lru, k, cache.capacity)
       IN  IF found = "ready"
           THEN /\ callers' = [callers EXCEPT ![c] =
                      Done(k, entries[k].inv, [tag |-> "Ok", value |-> entries[k].value])]
                /\ lru' = Append(Without(lru, k), k)
                /\ UNCHANGED <<entries, inflight, invocations>>
           ELSE IF found = "pending"
           THEN /\ callers' = [callers EXCEPT ![c] = Waiting(k, entries[k].inv)]
                /\ UNCHANGED <<entries, lru, inflight, invocations>>
           ELSE /\ invocations' = [invocations EXCEPT ![k] = inv]
                /\ inflight' = inflight \cup {[key |-> k, inv |-> inv]}
                /\ entries' = [kept EXCEPT ![k] = Pending(inv)]
                /\ lru' = SelectSeq(lru, LAMBDA x : x # k /\ kept[x].status = "ready")
                /\ callers' = [callers EXCEPT ![c] = Waiting(k, inv)]
    /\ UNCHANGED <<cache, now, cache_rest>>

\* the computation inv of the interactor for the key k resolves to res: its
\* waiters get res, and a value is stored
Complete(k, inv, res) ==
    /\ [key |-> k, inv |-> inv] \in inflight
    /\ inflight' = inflight \ {[key |-> k, inv |-> inv]}
    /\ callers' = [c \in Callers |->
                     IF callers[c] = Waiting(k, inv) THEN Done(k, inv, res)
                     ELSE callers[c]]
    /\ IF entries[k] # Pending(inv)
       THEN UNCHANGED <<entries, lru>>
       ELSE IF res.tag = "Ok"
       THEN /\ entries' = [entries EXCEPT ![k] = Ready(res.value, now, inv)]
            /\ lru' = Append(Without(lru, k), k)
       ELSE /\ entries' = [entries EXCEPT ![k] = Absent]
            /\ UNCHANGED lru
    /\ UNCHANGED <<cache, now, invocations, cache_rest>>

\* time passes
Tick ==
    /\ now < MaxTime
    /\ now' = now + 1
    /\ UNCHANGED <<cache, entries, lru, callers, inflight, invocations, cache_rest>>

CacheNext ==
    \/ \E c \in Callers, k \in Keys : Get(c, k)
    \/ \E k \in Keys, inv \in 1..MaxCallers, res \in Computed : Complete(k, inv, res)
    \/ Tick

SpecCache == CacheInit /\ [][CacheNext]_vars

\* ------------------------------------------------------------------------
\* Properties of LsRemoteFuture and of Engine
\* ------------------------------------------------------------------------

\* the bytes of the first i units of the response body
BodyPrefix(i) == BodyFlatten(SubSeq(units, 1, i))

\* the numbers of leading units from which the ref named HEAD is decoded
HeadPrefixes ==
    {i \in 1..Len(units) : find_head_oid(parse_body(BodyPrefix(i))).tag = "Ok"}

\* the least of them
HeadUnit == CHOOSE i \in HeadPrefixes : \A j \in HeadPrefixes : i <= j

\* the line of the ref named HEAD has arrived whole
HeadComplete ==
    HeadPrefixes # {} /\ Len(BodyPrefix(HeadUnit)) <= Len(received)

\* C11: once the chunk that completes the line of the ref named HEAD has been
\* read, the resolution of HEAD reads no further chunk of the body, and
\* find_head_oid resolves to the object id of that ref whatever the rest of
\* the body is and whether it arrives
ResolveHeadStopsAtHead ==
    /\ [][HeadComplete => received' = received]_vars
    /\ [](poll_pc = "done" /\ HeadComplete
            => head = find_head_oid(parse_body(BodyPrefix(HeadUnit))))

\* a status of the class 2xx
Is2xx(code) == code \div 100 = 2

\* C12: a response whose status is not 2xx makes the future fail with
\* UnexpectedStatusCode of that status, and nothing of its body is read or
\* parsed; a body is read or parsed only when the status was 2xx
NonSuccessStatusFails ==
    /\ status # <<>> /\ ~Is2xx(status[1])
         => /\ poll_pc = "done"
            /\ polled.tag = "Err"
            /\ polled.err.kind = "UnexpectedStatusCode"
            /\ polled.err.detail = status
            /\ pos = 0
            /\ received = <<>>
    /\ future = "Streaming" \/ pos > 0 \/ polled.tag = "Ok"
         => status # <<>> /\ Is2xx(status[1])

\* a response with status 300 has been rejected
StatusCodeRejected ==
    /\ status = <<300>>
    /\ poll_pc = "done"
    /\ polled.tag = "Err"
    /\ polled.err.kind = "UnexpectedStatusCode"

\* the invocations of poll: the steps that set what poll returned
PollReturns == polled' # polled \/ poll_pc' # poll_pc

\* C18: the FutureState only moves from Request to Streaming and from either
\* to the end; after a poll that returned NotReady it is Request or Streaming
\* again, it is Swapping only once poll returned a result, and no poll
\* reaches unreachable!(); a URL that does not parse gives a future in
\* FutureState::Error without a request, whose first poll fails with Uri
FutureMovesForward ==
    /\ [][/\ future = "None" => future' \in {"None", "Request", "Error"}
          /\ future = "Request" => future' \in {"Request", "Streaming", "Swapping"}
          /\ future = "Streaming" => future' \in {"Streaming", "Swapping"}
          /\ future = "Error" => future' \in {"Error", "Swapping"}
          /\ future = "Swapping" => future' = "Swapping"]_vars
    /\ [](polled.tag = "NotReady" => future \in {"Request", "Streaming"})
    /\ [](future = "Swapping" <=> poll_pc = "done")
    /\ [](~panicked)
    /\ [](url # <<>> /\ ~parse_uri(url)
            => ~requested /\ future \in {"Error", "Swapping"})
    /\ [][future = "Error" /\ PollReturns
            => polled'.tag = "Err" /\ polled'.err.kind = "Uri"
               /\ poll_pc' = "done"]_vars

\* a poll has returned NotReady with a part of the body read
NotReadyWhileStreaming ==
    /\ polled.tag = "NotReady"
    /\ future = "Streaming"
    /\ received # <<>>
    /\ received # payload

\* C19: find_head_oid resolves to the object id of the first ref of the list
\* that is named HEAD, and fails with 'HEAD ref not found' when the list has
\* none; a crawl is made only with the object id of such a ref
HeadIsFirstHeadRef ==
    /\ poll_pc = "done" /\ polled.tag = "Ok"
         => LET rs == polled.refs
            IN  IF \E i \in 1..Len(rs) : rs[i].name = HEADNAME
                THEN \E i \in 1..Len(rs) :
                        /\ rs[i].name = HEADNAME
                        /\ \A j \in 1..(i - 1) : rs[j].name # HEADNAME
                        /\ head = HOk(rs[i].oid)
                ELSE /\ head.tag = "Err"
                     /\ head.err.kind = "HEAD ref not found"
    /\ crawl # NoCrawl
         => /\ polled.tag = "Ok"
            /\ \E i \in 1..Len(polled.refs) :
                   polled.refs[i].name = HEADNAME /\ polled.refs[i].oid = crawl.oid

\* HEAD has been found behind a ref of another name
HeadAfterOtherRef ==
    /\ units = <<"svc", "tag", "head2">>
    /\ head = HOk(<<"e", "f">>)
    /\ crawl.oid = <<"e", "f">>

\* one of the futures of analyze_dependencies has failed
SomeStageFailed ==
    \/ head.tag = "Err"
    \/ crawl.res.tag = "Err"
    \/ \E i \in 1..Len(analyses) : analyses[i].res.tag = "Err"

\* C13: analyze_dependencies resolves to an outcome only when find_head_oid,
\* the crawl and the analysis of every crate the crawl found have succeeded,
\* and the outcome then holds all of these crates; when one of them has
\* failed it resolves to an error
WholeOperationFails ==
    /\ outcome.tag = "Ok"
         => /\ head.tag = "Ok"
            /\ crawl.res.tag = "Ok"
            /\ Len(outcome.crates) = Len(crawl.res.crates)
            /\ \A i \in 1..Len(crawl.res.crates) :
                   /\ analyses[i].res.tag = "Ok"
                   /\ outcome.crates[i].name = crawl.res.crates[i].name
                   /\ outcome.crates[i].deps = analyses[i].res.deps
    /\ SomeStageFailed => outcome.tag = "Err"

\* the analysis of one crate failed after that of another crate succeeded
OneAnalysisFailed ==
    /\ outcome.tag = "Err"
    /\ \E i, j \in 1..Len(analyses) :
           analyses[i].res.tag = "Err" /\ analyses[j].res.tag = "Ok"

\* the sum of the outdated counts of the first n crates of the outcome
RECURSIVE OutdatedSum(_)
OutdatedSum(n) ==
    IF n = 0 THEN 0 ELSE OutdatedSum(n - 1) + outcome.crates[n].deps.outdated

\* the sum of their total counts
RECURSIVE TotalSum(_)
TotalSum(n) ==
    IF n = 0 THEN 0 ELSE TotalSum(n - 1) + outcome.crates[n].deps.total

\* C15: outdated_ratio returns the sum of the outdated counts and the sum of
\* the total counts of the crates of the outcome, (0, 0) when it has none
RatioIsSumOfCounts ==
    ratio # <<>>
    => /\ ratio[1] = OutdatedSum(Len(outcome.crates))
       /\ ratio[2] = TotalSum(Len(outcome.crates))
       /\ outcome.crates = <<>> => ratio = <<0, 0>>

\* the ratio of an outcome of three crates, two of them with outdated
\* dependencies
RatioOverThreeCrates ==
    /\ ratio # <<>>
    /\ Len(outcome.crates) = 3
    /\ outcome.crates[1].deps.outdated > 0
    /\ outcome.crates[2].deps.outdated > 0
    /\ outcome.crates[3].deps.total = 0

\* C17: a manifest is retrieved only after find_head_oid resolved, for the
\* object id it resolved to, and the first one at the root; the analysis of
\* the crates is made only after the crawl succeeded; after a failure of
\* find_head_oid no manifest is retrieved, after a failure of the crawl no
\* analysis is made
StagesInOrder ==
    /\ fetched # <<>> => head.tag = "Ok"
    /\ \A i \in 1..Len(fetched) :
           fetched[i].oid = head.oid /\ fetched[i].repo_path = repo_path
    /\ fetched # <<>> => fetched[1].manifest_path = <<"/", "Cargo.toml">>
    /\ crawl # NoCrawl => head.tag = "Ok" /\ crawl.oid = head.oid
                          /\ crawl.entry_point = "/"
    /\ analyses # <<>> => crawl.res.tag = "Ok"
    /\ head.tag = "Err" => fetched = <<>> /\ crawl = NoCrawl
    /\ crawl.res.tag = "Err" => analyses = <<>>

\* an analysis has been made after a crawl of three manifests
AnalysisAfterCrawl ==
    /\ Len(fetched) = 3
    /\ analyses # <<>>
    /\ \E i \in 1..Len(analyses) : analyses[i].res.tag = "Ok"

\* ------------------------------------------------------------------------
\* Properties of the two decoders together
\* ------------------------------------------------------------------------

\* two results are the same list of refs or the same kind of error
SameOutcome(a, b) ==
    /\ a.tag = b.tag
    /\ a.tag = "Ok" => a.refs = b.refs
    /\ a.tag = "Err" => a.err.kind = b.err.kind

\* C16: on every payload, however it is cut into chunks, parse and parse_body
\* return the same refs or fail with the same kind of error
BatchAndIncrementalAgree ==
    pc = "done" /\ body_result.tag # "None" => SameOutcome(result, body_result)

\* ------------------------------------------------------------------------
\* Termination of update and of parse
\* ------------------------------------------------------------------------

\* an invocation of update ends in `return self.update(data)`
SelfCalls == pc' = "self"

\* what is left to do: the bytes to read weigh more than the bytes in the
\* buffer, these more than the length that is awaited, and this more than
\* the place of parse
Variant ==
    8 * (Len(payload) - pos) + 6 * Len(data)
    + (IF state.tag = "AwaitingLength" THEN 2 ELSE 0)
    + (IF pc \in {"update", "self"} THEN 3 ELSE IF pc = "read" THEN 2 ELSE 0)
    + (IF body_result.tag = "None" THEN 1 ELSE 0)

\* parse can take a step: read or meet the end of the stream, or call update
CanStep ==
    \/ pc = "read" /\ pos <= Len(payload)
    \/ pc \in {"update", "self"}

\* C20: update calls itself only after it removed the 4 bytes of a length
\* from the buffer or went from awaiting a length to awaiting a line; every
\* step of update and of parse makes what is left to do less, parse can go
\* on until it has returned, and it returns a list of refs or an error
ParseTerminates ==
    /\ [][SelfCalls => \/ Len(data') = Len(data) - 4
                       \/ /\ state.tag = "AwaitingLength"
                          /\ state'.tag = "AwaitingLineOfLength"]_vars
    /\ [][Variant' < Variant]_vars
    /\ [](Variant >= 0)
    /\ [](pc # "done" => CanStep)
    /\ [](pc = "done" => result.tag \in {"Ok", "Err"})

\* parse has returned after update called itself twice in one call
ReturnedAfterSelfCalls ==
    /\ pc = "done"
    /\ result.tag = "Ok"
    /\ \E i \in 1..(Len(log) - 1) : log[i] = "sep" /\ log[i + 1] = "len"

\* ------------------------------------------------------------------------
\* Properties of a Cache of the Engine
\* ------------------------------------------------------------------------

\* the computations of the interactor that run for the key k
Running(k) == {f \in inflight : f.key = k}

\* C14: at most one computation of the interactor runs for a key; a call of
\* get made while one runs for its key calls the interactor no further time
\* and waits for that computation; the callers that waited for one
\* computation all get its one result
SingleFlight ==
    /\ [](\A k \in Keys : Cardinality(Running(k)) <= 1)
    /\ [][\A c \in Callers :
            callers[c].state = "idle" /\ callers'[c].state # "idle"
            /\ Running(callers'[c].key) # {}
            => /\ invocations' = invocations
               /\ callers'[c].state = "waiting"
               /\ [key |-> callers'[c].key, inv |-> callers'[c].inv] \in inflight]_vars
    /\ [](\A c \in Callers :
            callers[c].state = "waiting"
            => [key |-> callers[c].key, inv |-> callers[c].inv] \in inflight)
    /\ [](\A c, d \in Callers :
            /\ callers[c].state = "done"
            /\ callers[d].state = "done"
            /\ callers[c].key = callers[d].key
            /\ callers[c].inv = callers[d].inv
            => callers[c].result = callers[d].result)

\* every caller asked for the same key while its computation ran, the
\* interactor was called once, and all of them got its failure
AllCallersOneFailure ==
    /\ \A c \in Callers :
           callers[c] = Done("k1", 1, [tag |-> "Err", value |-> ""])
    /\ invocations["k1"] = 1
    /\ now = 0

====
